---- MODULE Spec2Model ----
(***************************************************************************)
(* Query analysis, retrieval orchestration, re-ranking and strategy        *)
(* selection of the academic chatbot backend (backend/utils.py,            *)
(* backend/main.py, backend/document_strategies.py).                       *)
(*                                                                         *)
(* A Python str is a sequence of one-character strings; regular            *)
(* expressions are translated by hand into scanners over such sequences.   *)
(***************************************************************************)
EXTENDS Integers, Sequences, FiniteSets, TLC

VARIABLES
    pc,              \* position of the running handler or function
    question,        \* req.question
    query_info,      \* parse_query's return value
    lookups,         \* the calls made to vector_db.similarity_search, in order
    results,         \* chat_endpoint's local `results`
    candidates,      \* the list handed to rerank_results
    scored_results,  \* rerank_results' local, after its sort
    filename,        \* get_strategy's arguments and return value
    content,
    strategy,
    impl,            \* which of the two article splitters runs
    parts,           \* the parts of re.split still to be visited
    current_chunk,   \* the splitters' accumulator
    current_article, \* the article number of the accumulator
    chunks,          \* the chunks emitted so far
    table,           \* the DataFrame of table_to_chunks, in main the list of them
    ingest,          \* ingest.main's view of the document it processes
    sources,         \* chat_endpoint's local `sources`
    reply            \* what chat_endpoint hands back to its caller

\* the variables of the segmentation, the ingestion and the answer
newVars == <<impl, parts, current_chunk, current_article, chunks, table,
             ingest, sources, reply>>

vars == <<pc, question, query_info, lookups, results, candidates,
          scored_results, filename, content, strategy, newVars>>

\* nothing segmented, ingested or answered yet
NewIdle ==
    /\ impl = "none"
    /\ parts = <<>>
    /\ current_chunk = <<>>
    /\ current_article = {}
    /\ chunks = <<>>
    /\ table = <<>>
    /\ ingest = <<>>
    /\ sources = <<>>
    /\ reply = <<>>

-----------------------------------------------------------------------------
(* Bounds of the model *)

\* longest question, counted in vocabulary words (QVocab)
MaxQTokens == 4

\* most chunks one similarity search returns (the code asks for 5 or 10)
MaxHits == 2

\* longest candidate list handed to rerank_results on its own
MaxCands == 3

\* filler characters of the one long candidate
PadLong == 150000

\* longest document text, counted in vocabulary words (DocVocab)
MaxDocTokens == 5

-----------------------------------------------------------------------------
(* Characters *)

UpperChars == <<"A","B","C","D","E","F","G","H","I","J","K","L","M",
                "N","O","P","Q","R","S","T","U","V","W","X","Y","Z">>
LowerChars == <<"a","b","c","d","e","f","g","h","i","j","k","l","m",
                "n","o","p","q","r","s","t","u","v","w","x","y","z">>
DigitChars == <<"0","1","2","3","4","5","6","7","8","9">>

UpperSet == {UpperChars[i] : i \in 1..Len(UpperChars)}
LowerSet == {LowerChars[i] : i \in 1..Len(LowerChars)}
DigitSet == {DigitChars[i] : i \in 1..Len(DigitChars)}

\* str.lower() on one character
LowerOf == [c \in UpperSet |->
              LowerChars[CHOOSE i \in 1..Len(UpperChars) : UpperChars[i] = c]]
Lower(c) == IF c \in UpperSet THEN LowerOf[c] ELSE c

\* int() of one digit
DigitOf == [c \in DigitSet |->
              (CHOOSE i \in 1..Len(DigitChars) : DigitChars[i] = c) - 1]

IsDigit(c) == c \in DigitSet                      \* \d
IsSpace(c) == c \in {" ", "\t", "\n", "\r", "\f"} \* \s
IsAlpha(c) == c \in UpperSet \cup LowerSet        \* [a-zA-Z]
IsWord(c)  == IsAlpha(c) \/ IsDigit(c) \/ c = "_" \* \w

Min(S) == CHOOSE x \in S : \A y \in S : x <= y
Max(S) == CHOOSE x \in S : \A y \in S : x >= y

-----------------------------------------------------------------------------
(* Strings *)

\* str.lower()
LowerStr(s) == [i \in 1..Len(s) |-> Lower(s[i])]

\* s[a:b] with 1-based a and exclusive b
SubStr(s, a, b) == SubSeq(s, a, b - 1)

\* the literal lit stands at position i of s
MatchAt(s, i, lit) ==
    /\ i >= 1
    /\ i + Len(lit) - 1 <= Len(s)
    /\ \A j \in 1..Len(lit) : s[i + j - 1] = lit[j]

\* the same under re.IGNORECASE
MatchAtI(s, i, lit) ==
    /\ i >= 1
    /\ i + Len(lit) - 1 <= Len(s)
    /\ \A j \in 1..Len(lit) : Lower(s[i + j - 1]) = Lower(lit[j])

\* Python's `lit in s`
Contains(s, lit) == \E i \in 1..(Len(s) - Len(lit) + 1) : MatchAt(s, i, lit)

\* first position >= i that holds no whitespace / digit / letter
SpaceEnd(s, i) ==
    LET stop == {j \in i..Len(s) : ~IsSpace(s[j])}
    IN  IF stop = {} THEN Len(s) + 1 ELSE Min(stop)
DigitEnd(s, i) ==
    LET stop == {j \in i..Len(s) : ~IsDigit(s[j])}
    IN  IF stop = {} THEN Len(s) + 1 ELSE Min(stop)
AlphaEnd(s, i) ==
    LET stop == {j \in i..Len(s) : ~IsAlpha(s[j])}
    IN  IF stop = {} THEN Len(s) + 1 ELSE Min(stop)

\* \b before position i (i = Len(s) + 1 is the end of the string)
WordBoundary(s, i) ==
    LET before == i > 1 /\ i - 1 <= Len(s) /\ IsWord(s[i - 1])
        after  == i >= 1 /\ i <= Len(s) /\ IsWord(s[i])
    IN  before # after

\* int() of a string of digits
RECURSIVE ToInt(_)
ToInt(ds) ==
    IF ds = <<>> THEN 0
    ELSE 10 * ToInt(SubSeq(ds, 1, Len(ds) - 1)) + DigitOf[ds[Len(ds)]]

\* str() of a natural number
RECURSIVE ToStr(_)
ToStr(n) ==
    IF n < 10 THEN <<DigitChars[n + 1]>>
    ELSE ToStr(n \div 10) \o <<DigitChars[(n % 10) + 1]>>

RECURSIVE Flatten(_)
Flatten(ss) == IF ss = <<>> THEN <<>> ELSE Head(ss) \o Flatten(Tail(ss))

\* every sequence over S of length at most n
SeqsUpTo(S, n) == UNION {[1..k -> S] : k \in 0..n}

-----------------------------------------------------------------------------
(* Literals of utils.py *)

L_asal    == <<"a","s","a","l">>
L_pasal   == <<"p","a","s","a","l">>
L_tanggal == <<"t","a","n","g","g","a","l">>

months_id ==
    << <<"J","a","n","u","a","r","i">>,
       <<"F","e","b","r","u","a","r","i">>,
       <<"M","a","r","e","t">>,
       <<"A","p","r","i","l">>,
       <<"M","e","i">>,
       <<"J","u","n","i">>,
       <<"J","u","l","i">>,
       <<"A","g","u","s","t","u","s">>,
       <<"S","e","p","t","e","m","b","e","r">>,
       <<"O","k","t","o","b","e","r">>,
       <<"N","o","v","e","m","b","e","r">>,
       <<"D","e","s","e","m","b","e","r">> >>

kalender_keywords ==
    << <<"j","a","d","w","a","l">>,
       <<"a","c","a","r","a">>,
       <<"e","v","e","n","t">>,
       <<"k","e","g","i","a","t","a","n">>,
       <<"l","i","b","u","r">>,
       <<"u","j","i","a","n">>,
       <<"s","e","m","e","s","t","e","r">>,
       <<"k","a","l","e","n","d","e","r">>,
       <<"k","a","p","a","n">>,
       <<"t","a","n","g","g","a","l">> >>

stopwords ==
    { <<"a","p","a">>, <<"y","a","n","g">>, <<"d","i">>, <<"k","e">>,
      <<"d","a","r","i">>, <<"d","a","n">>, <<"a","t","a","u">>,
      <<"a","d","a","l","a","h">>, <<"s","e","b","u","t","k","a","n">>,
      <<"j","e","l","a","s","k","a","n">>, <<"d","o","k","u","m","e","n">>,
      <<"k","a","p","a","n">>, <<"b","e","r","a","p","a">>,
      <<"t","e","n","t","a","n","g">> }

-----------------------------------------------------------------------------
(* parse_query: the regular expressions *)

\* r'[Pp]asal\s+(\d+)' tried at position i: the span of group 1, or ok = FALSE
ArticleMatch(s, i) ==
    LET ws == SpaceEnd(s, i + 5)
        de == DigitEnd(s, ws)
    IN  IF /\ i <= Len(s)
           /\ s[i] \in {"P", "p"}
           /\ MatchAt(s, i + 1, L_asal)
           /\ ws > i + 5
           /\ de > ws
        THEN [ok |-> TRUE, gs |-> ws, ge |-> de]
        ELSE [ok |-> FALSE, gs |-> 0, ge |-> 0]

\* re.findall(article_pattern, s) from position i on: the strings of group 1
RECURSIVE ArticleFindFrom(_, _)
ArticleFindFrom(s, i) ==
    IF i > Len(s) THEN <<>>
    ELSE LET m == ArticleMatch(s, i)
         IN  IF m.ok
             THEN <<SubStr(s, m.gs, m.ge)>> \o ArticleFindFrom(s, m.ge)
             ELSE ArticleFindFrom(s, i + 1)

\* a mutant: only the first mention is reported
article_findall_first(s) ==
    LET all == ArticleFindFrom(s, 1)
    IN  IF all = <<>> THEN <<>> ELSE <<all[1]>>

article_findall(s) == ArticleFindFrom(s, 1)

\* r'\b(Januari|...|Desember)\b' with re.IGNORECASE tried at position i:
\* the length of the match, 0 when there is none. The alternatives are tried
\* in order and one is kept only if the closing \b holds after it.
MonthMatchLen(s, i) ==
    IF ~WordBoundary(s, i) THEN 0
    ELSE LET ks == {k \in 1..Len(months_id) :
                       /\ MatchAtI(s, i, months_id[k])
                       /\ WordBoundary(s, i + Len(months_id[k]))}
         IN  IF ks = {} THEN 0 ELSE Len(months_id[Min(ks)])

\* re.findall(month_pattern, s, re.IGNORECASE) from position i on: group 1,
\* the text of the question as written
RECURSIVE MonthFindFrom(_, _)
MonthFindFrom(s, i) ==
    IF i > Len(s) THEN <<>>
    ELSE LET n == MonthMatchLen(s, i)
         IN  IF n > 0
             THEN <<SubStr(s, i, i + n)>> \o MonthFindFrom(s, i + n)
             ELSE MonthFindFrom(s, i + 1)

month_findall(s) == MonthFindFrom(s, 1)

\* date_pattern = r'(?:tanggal\s+)?(\d{1,2})(?:\s+(' + month_pattern + r'))?'
\* tried at position i. month_pattern brings its own group, so the pattern
\* has three groups: the day, the month, and the month again.
DateMatch(s, i) ==
    LET ws0  == SpaceEnd(s, i + Len(L_tanggal))
        pre  == /\ MatchAtI(s, i, L_tanggal)
                /\ ws0 > i + Len(L_tanggal)
                /\ ws0 <= Len(s)
                /\ IsDigit(s[ws0])
        d0   == IF pre THEN ws0 ELSE i
        ok   == d0 <= Len(s) /\ IsDigit(s[d0])
        d1   == Min({DigitEnd(s, d0), d0 + 2})
        ws1  == SpaceEnd(s, d1)
        mlen == IF ws1 > d1 THEN MonthMatchLen(s, ws1) ELSE 0
        mon  == IF mlen > 0 THEN SubStr(s, ws1, ws1 + mlen) ELSE <<>>
    IN  IF ok
        THEN [ok |-> TRUE,
              groups |-> <<SubStr(s, d0, d1), mon, mon>>,
              end |-> IF mlen > 0 THEN ws1 + mlen ELSE d1]
        ELSE [ok |-> FALSE, groups |-> <<>>, end |-> 0]

\* re.findall(date_pattern, s, re.IGNORECASE) from position i on: one tuple of
\* groups per match
RECURSIVE DateFindFrom(_, _)
DateFindFrom(s, i) ==
    IF i > Len(s) THEN <<>>
    ELSE LET m == DateMatch(s, i)
         IN  IF m.ok
             THEN <<m.groups>> \o DateFindFrom(s, m.end)
             ELSE DateFindFrom(s, i + 1)

date_findall(s) == DateFindFrom(s, 1)

\* r'\b[a-zA-Z]{3,}\b' tried at position i: the end of the match, 0 when none
WordMatchEnd(s, i) ==
    IF ~(i <= Len(s) /\ IsAlpha(s[i]) /\ WordBoundary(s, i)) THEN 0
    ELSE LET ends == {e \in (i + 3)..AlphaEnd(s, i) : WordBoundary(s, e)}
         IN  IF ends = {} THEN 0 ELSE Max(ends)

\* re.findall(r'\b[a-zA-Z]{3,}\b', s) from position i on
RECURSIVE WordFindFrom(_, _)
WordFindFrom(s, i) ==
    IF i > Len(s) THEN <<>>
    ELSE LET e == WordMatchEnd(s, i)
         IN  IF e > 0
             THEN <<SubStr(s, i, e)>> \o WordFindFrom(s, e)
             ELSE WordFindFrom(s, i + 1)

word_findall(s) == WordFindFrom(s, 1)

\* [w for w in ws if keep(w)]
RECURSIVE DropStopwords(_)
DropStopwords(ws) ==
    IF ws = <<>> THEN <<>>
    ELSE IF Head(ws) \in stopwords THEN DropStopwords(Tail(ws))
         ELSE <<Head(ws)>> \o DropStopwords(Tail(ws))

\* the loop `for day, month in date_matches`: the formatted dates
RECURSIVE FormatDates(_)
FormatDates(ms) ==
    IF ms = <<>> THEN <<>>
    ELSE LET day   == Head(ms)[1]
             month == Head(ms)[2]
             rest  == FormatDates(Tail(ms))
         IN  IF day # <<>>
             THEN IF month # <<>>
                  THEN <<day \o <<" ">> \o month>> \o rest
                  ELSE <<day>> \o rest
             ELSE rest

-----------------------------------------------------------------------------
(* parse_query *)

\* what a caller holds when parse_query did not return
Raised(e) ==
    [error |-> e, doc_type |-> "general", article_numbers |-> <<>>,
     months |-> <<>>, dates |-> <<>>, query_type |-> "general",
     keywords |-> <<>>]

\* the part of parse_query after the regulation detection
CalendarAndKeywords(query) ==
    LET month_matches == month_findall(query)
        date_matches  == date_findall(query)
        \* `for day, month in date_matches` unpacks each tuple into two names
        unpack_ok     == \A k \in 1..Len(date_matches) : Len(date_matches[k]) = 2
        calendar      == month_matches # <<>> \/ date_matches # <<>>
        kw_hit        == \E k \in 1..Len(kalender_keywords) :
                             Contains(LowerStr(query), kalender_keywords[k])
        words         == word_findall(LowerStr(query))
    IN  IF ~unpack_ok THEN Raised("ValueError")
        ELSE [error           |-> "none",
              doc_type        |-> IF calendar \/ kw_hit THEN "kalender"
                                  ELSE "general",
              article_numbers |-> <<>>,
              months          |-> month_matches,
              dates           |-> FormatDates(date_matches),
              query_type      |-> IF calendar THEN "specific_date"
                                  ELSE "general",
              keywords        |-> DropStopwords(words)]

parse_query(query) ==
    LET matches == article_findall(query)
    IN  IF matches # <<>>
        THEN [error           |-> "none",
              doc_type        |-> "peraturan",
              article_numbers |-> [k \in 1..Len(matches) |-> ToInt(matches[k])],
              months          |-> <<>>,
              dates           |-> <<>>,
              query_type      |-> IF Len(matches) > 1 THEN "comparison"
                                  ELSE "specific_article",
              keywords        |-> <<>>]
        ELSE CalendarAndKeywords(query)

-----------------------------------------------------------------------------
(* Questions *)

W_Pasal5   == <<"P","a","s","a","l"," ","5">>
W_pasal10  == <<"p","a","s","a","l"," "," ","1","0">>
W_PASAL7   == <<"P","A","S","A","L"," ","7">>
W_sp       == <<" ">>
W_Mei      == <<"M","e","i">>
W_juni     == <<"j","u","n","i">>
W_dan      == <<"d","a","n">>
W_libur    == <<"l","i","b","u","r">>
W_tgl15    == <<"t","a","n","g","g","a","l"," ","1","5">>

QVocab ==
    {W_Pasal5, W_pasal10, W_PASAL7, W_sp, W_Mei, W_juni, W_dan, W_libur,
     W_tgl15}

Questions == {Flatten(ts) : ts \in SeqsUpTo(QVocab, MaxQTokens)}

NoInfo == Raised("none")

-----------------------------------------------------------------------------
(* The query analyzer on its own: one question, parsed once *)

InitQuery ==
    /\ pc = "start"
    /\ question \in Questions
    /\ query_info = NoInfo
    /\ lookups = <<>>
    /\ results = <<>>
    /\ candidates = <<>>
    /\ scored_results = <<>>
    /\ filename = <<>>
    /\ content = <<>>
    /\ strategy = "none"
    /\ NewIdle

\* query_info = parse_query(req.question); an exception leaves the handler
ParseQuery ==
    /\ pc = "start"
    /\ query_info' = parse_query(question)
    /\ pc' = IF query_info'.error = "none" THEN "parsed" ELSE "failed"
    /\ UNCHANGED <<question, lookups, results, candidates, scored_results,
                   filename, content, strategy>>
    /\ UNCHANGED newVars

NextQuery == ParseQuery

SpecQuery == InitQuery /\ [][NextQuery]_vars

-----------------------------------------------------------------------------
(* Claims about parse_query *)

\* the k-th smallest element of a set of numbers
Nth(S, k) == CHOOSE i \in S : Cardinality({x \in S : x < i}) = k - 1

\* C1: parse_query returns a QueryAnalysis for every question and never
\* raises an error.
C1_ParseNeverRaises == pc # "start" => query_info.error = "none"

\* positions where a mention 'Pasal <n>' / 'pasal <n>' starts
MentionStarts(q) ==
    {i \in 1..Len(q) :
        /\ MatchAt(q, i, <<"P">> \o L_asal) \/ MatchAt(q, i, L_pasal)
        /\ \E j \in (i + 6)..Len(q) :
              /\ IsDigit(q[j])
              /\ \A k \in (i + 5)..(j - 1) : IsSpace(q[k])}

\* the number written from position j on, read left to right
RECURSIVE Horner(_, _, _)
Horner(q, j, acc) ==
    IF j > Len(q) \/ ~IsDigit(q[j]) THEN acc
    ELSE Horner(q, j + 1, 10 * acc + DigitOf[q[j]])

MentionNumber(q, i) ==
    Horner(q, Min({j \in (i + 6)..Len(q) : IsDigit(q[j])}), 0)

MentionedNumbers(q) ==
    [k \in 1..Cardinality(MentionStarts(q)) |->
        MentionNumber(q, Nth(MentionStarts(q), k))]

\* C2: a question with at least one article mention yields all mentioned
\* numbers in order, doc_type peraturan, comparison for more than one number
\* and specific_article for one, and no months and no dates.
C2_ArticleQuery ==
    (pc # "start" /\ MentionStarts(question) # {}) =>
        /\ query_info.error = "none"
        /\ query_info.article_numbers = MentionedNumbers(question)
        /\ query_info.doc_type = "peraturan"
        /\ query_info.query_type =
              (IF Cardinality(MentionStarts(question)) > 1 THEN "comparison"
               ELSE "specific_article")
        /\ query_info.months = <<>>
        /\ query_info.dates = <<>>

C2_Witness ==
    /\ pc = "parsed"
    /\ Cardinality(MentionStarts(question)) > 1
    /\ month_findall(question) # <<>>
    /\ query_info.query_type = "comparison"
    /\ Len(query_info.article_numbers) = 2
    /\ query_info.article_numbers[1] # query_info.article_numbers[2]

\* the maximal runs of letters of q
RunStarts(q) ==
    {i \in 1..Len(q) : IsAlpha(q[i]) /\ (i = 1 \/ ~IsAlpha(q[i - 1]))}
RunAt(q, i) == SubStr(q, i, AlphaEnd(q, i))
KeywordStarts(q) ==
    {i \in RunStarts(q) : Len(RunAt(q, i)) >= 3 /\ RunAt(q, i) \notin stopwords}
ExpectedKeywords(question_) ==
    LET q == LowerStr(question_)
    IN  [k \in 1..Cardinality(KeywordStarts(q)) |->
            RunAt(q, Nth(KeywordStarts(q), k))]

\* C3: whatever the classification, keywords is the question's lower-cased
\* alphabetic tokens of length >= 3 without the stopwords, in order of
\* occurrence, duplicates kept.
C3_KeywordsAlways ==
    pc = "parsed" => query_info.keywords = ExpectedKeywords(question)

-----------------------------------------------------------------------------
(* Chunks of the vector index *)

\* CalendarTableExtractor.extract_month_from_text: the first month of the
\* list, in list order, found in the text whatever its case; <<>> is None
extract_month_from_text(text) ==
    LET ks == {k \in 1..Len(months_id) :
                  Contains(LowerStr(text), LowerStr(months_id[k]))}
    IN  IF text = <<>> \/ ks = {} THEN <<>> ELSE months_id[Min(ks)]

\* A chunk: page_content is `text` followed by `pad` filler characters that
\* are neither letters, digits nor blanks, so that no literal searched in the
\* content reaches into the filler. article_number is the set holding the
\* metadata value, empty when the key is absent; month <<>> is an absent key.
Chunk(id, source, page, doc_type, article_number, month, text, pad) ==
    [id |-> id, source |-> source, page |-> page, doc_type |-> doc_type,
     article_number |-> article_number, month |-> month,
     text |-> text, pad |-> pad]

T_Pasal5  == <<"P","a","s","a","l"," ","5">>
T_pasal5  == <<"p","a","s","a","l"," ","5">>
T_PASAL10 == <<"P","A","S","A","L"," "," ","1","0"," ","L","i","b","u","r">>
T_Mei     == <<"1","2"," ","m","e","i"," ","l","i","b","u","r">>
T_umum    == <<"u","m","u","m">>
T_long    == <<"p","a","s","a","l"," "," ","5"," ","l","i","b","u","r">>

\* the chunks the ingestion stored
DB ==
    { Chunk(1, "peraturan.pdf", 0, "peraturan", {5},  <<>>, T_umum, 0),
      Chunk(2, "peraturan.pdf", 1, "peraturan", {5},  <<>>, T_pasal5, 0),
      Chunk(3, "peraturan.pdf", 1, "peraturan", {10}, <<>>, T_PASAL10, 0),
      Chunk(4, "peraturan.pdf", 2, "peraturan", {},   <<>>, T_Pasal5, 0),
      Chunk(5, "kalender.pdf",  1, "kalender",  {},
            extract_month_from_text(T_Mei), T_Mei, 0) }

\* candidates for the re-ranker on its own: the stored chunks and a long one
RDocs == DB \cup {Chunk(6, "lampiran.pdf", 0, "generic", {}, <<>>, T_long, PadLong)}

\* len(doc.page_content)
ContentLen(doc) == Len(doc.text) + doc.pad

-----------------------------------------------------------------------------
(* rerank_results *)
(* A score is held in thousandths: score + len(content) / 1000.0 becomes     *)
(* 1000 * score + len(content), which orders the candidates as the floats do *)

\* f'pasal {article_num}' and f'pasal  {article_num}'
PasalLit1(n) == L_pasal \o <<" ">> \o ToStr(n)
PasalLit2(n) == L_pasal \o <<" ", " ">> \o ToStr(n)

\* the loop over query_info['article_numbers']
RECURSIVE ArticleBoost(_, _, _)
ArticleBoost(content_, doc, nums) ==
    IF nums = <<>> THEN 0
    ELSE (IF Contains(content_, PasalLit1(Head(nums)))
             \/ Contains(content_, PasalLit2(Head(nums)))
          THEN 100000 ELSE 0)
         + (IF Head(nums) \in doc.article_number THEN 200000 ELSE 0)
         + ArticleBoost(content_, doc, Tail(nums))

\* the loop over query_info['keywords']
RECURSIVE KeywordBoost(_, _)
KeywordBoost(content_, kws) ==
    IF kws = <<>> THEN 0
    ELSE (IF Contains(content_, Head(kws)) THEN 5000 ELSE 0)
         + KeywordBoost(content_, Tail(kws))

\* a mutant: the content is searched as written
ScoreAsWritten(doc, qi) ==
    ArticleBoost(doc.text, doc, qi.article_numbers)
    + KeywordBoost(doc.text, qi.keywords)
    + ContentLen(doc)

\* the body of `for doc in results`
Score(doc, qi) ==
    LET content_ == LowerStr(doc.text)
    IN  ArticleBoost(content_, doc, qi.article_numbers)
        + KeywordBoost(content_, qi.keywords)
        + ContentLen(doc)

\* list.sort(key=lambda x: x[0], reverse=True): stable, an entry goes behind
\* every entry whose score is at least its own
InsertDesc(sorted, x) ==
    LET lower == {i \in 1..Len(sorted) : sorted[i][1] < x[1]}
        at    == IF lower = {} THEN Len(sorted) + 1 ELSE Min(lower)
    IN  SubSeq(sorted, 1, at - 1) \o <<x>> \o SubSeq(sorted, at, Len(sorted))

RECURSIVE SortDescFrom(_, _)
SortDescFrom(sorted, rest) ==
    IF rest = <<>> THEN sorted
    ELSE SortDescFrom(InsertDesc(sorted, Head(rest)), Tail(rest))

\* a mutant: the sort leaves the list as it is
SortKeepOrder(scored) == scored

SortDesc(scored) == SortDescFrom(<<>>, scored)

\* scored_results after the sort
ScoredSorted(docs, qi) ==
    SortDesc([i \in 1..Len(docs) |-> <<Score(docs[i], qi), docs[i]>>])

rerank_results(docs, qi) ==
    LET scored == ScoredSorted(docs, qi)
    IN  [i \in 1..Len(scored) |-> scored[i][2]]

-----------------------------------------------------------------------------
(* chat_endpoint: retrieval *)

\* the metadata filter of one similarity search
Filter(key, num, str) == [key |-> key, num |-> num, str |-> str]

\* a mutant: the fallback search is narrowed to one document type
NoFilterNarrowed == Filter("doc_type", 0, "peraturan")

\* similarity_search(req.question, k=10) carries no filter
NoFilter == Filter("none", 0, <<>>)

\* a mutant: the calendar fallback searches every document
KalenderFilterDropped == Filter("none", 0, <<>>)

\* filter={"doc_type": "kalender"}
KalenderFilter == Filter("doc_type", 0, "kalender")

Matches(doc, f) ==
    CASE f.key = "none"           -> TRUE
      [] f.key = "article_number" -> f.num \in doc.article_number
      [] f.key = "month"          -> doc.month # <<>> /\ doc.month = f.str
      [] f.key = "doc_type"       -> doc.doc_type = f.str

\* vector_db.similarity_search(question, k, filter): an external call. It
\* returns at most k distinct stored chunks that satisfy the filter, in an
\* order the embedding decides.
similarity_search(k, f) ==
    {h \in SeqsUpTo({d \in DB : Matches(d, f)}, MaxHits) :
        /\ Len(h) <= k
        /\ \A i, j \in 1..Len(h) : i # j => h[i] # h[j]}

Lookup(k, f, returned) == [k |-> k, filter |-> f, returned |-> returned]

\* one pass of `for article_num in query_info['article_numbers']`
ArticleLookup ==
    /\ pc = "parsed"
    /\ query_info.article_numbers # <<>>
    /\ Len(lookups) < Len(query_info.article_numbers)
    /\ LET f == Filter("article_number",
                       query_info.article_numbers[Len(lookups) + 1], <<>>)
       IN  \E h \in similarity_search(5, f) :
              /\ lookups' = Append(lookups, Lookup(5, f, h))
              /\ results' = results \o h
    /\ pc' = IF Len(lookups') = Len(query_info.article_numbers)
                /\ results' # <<>>
             THEN "retrieved" ELSE "parsed"
    /\ UNCHANGED <<question, query_info, candidates, scored_results,
                   filename, content, strategy>>
    /\ UNCHANGED newVars

\* `if not results:` after the article loop
ArticleFallback ==
    /\ pc = "parsed"
    /\ query_info.article_numbers # <<>>
    /\ Len(lookups) = Len(query_info.article_numbers)
    /\ results = <<>>
    /\ \E h \in similarity_search(10, NoFilter) :
          /\ lookups' = Append(lookups, Lookup(10, NoFilter, h))
          /\ results' = h
    /\ pc' = "retrieved"
    /\ UNCHANGED <<question, query_info, candidates, scored_results,
                   filename, content, strategy>>
    /\ UNCHANGED newVars

\* one pass of `for month in query_info['months']`
MonthLookup ==
    /\ pc = "parsed"
    /\ query_info.article_numbers = <<>>
    /\ query_info.doc_type = "kalender"
    /\ Len(lookups) < Len(query_info.months)
    /\ LET f == Filter("month", 0, query_info.months[Len(lookups) + 1])
       IN  \E h \in similarity_search(5, f) :
              /\ lookups' = Append(lookups, Lookup(5, f, h))
              /\ results' = results \o h
    /\ pc' = IF Len(lookups') = Len(query_info.months) /\ results' # <<>>
             THEN "retrieved" ELSE "parsed"
    /\ UNCHANGED <<question, query_info, candidates, scored_results,
                   filename, content, strategy>>
    /\ UNCHANGED newVars

\* `if not results:` of the calendar branch
KalenderFallback ==
    /\ pc = "parsed"
    /\ query_info.article_numbers = <<>>
    /\ query_info.doc_type = "kalender"
    /\ Len(lookups) = Len(query_info.months)
    /\ results = <<>>
    /\ \E h \in similarity_search(10, KalenderFilter) :
          /\ lookups' = Append(lookups, Lookup(10, KalenderFilter, h))
          /\ results' = h
    /\ pc' = "retrieved"
    /\ UNCHANGED <<question, query_info, candidates, scored_results,
                   filename, content, strategy>>
    /\ UNCHANGED newVars

\* the else branch: pure semantic search
GeneralLookup ==
    /\ pc = "parsed"
    /\ query_info.article_numbers = <<>>
    /\ query_info.doc_type # "kalender"
    /\ \E h \in similarity_search(10, NoFilter) :
          /\ lookups' = Append(lookups, Lookup(10, NoFilter, h))
          /\ results' = h
    /\ pc' = "retrieved"
    /\ UNCHANGED <<question, query_info, candidates, scored_results,
                   filename, content, strategy>>
    /\ UNCHANGED newVars

\* `if results: results = rerank_results(results, query_info)`
Rerank ==
    /\ pc = "retrieved"
    /\ candidates' = results
    /\ scored_results' = ScoredSorted(results, query_info)
    /\ results' = rerank_results(results, query_info)
    /\ pc' = "ranked"
    /\ UNCHANGED <<question, query_info, lookups, filename, content, strategy>>
    /\ UNCHANGED newVars

\* f"{doc.metadata.get('source')} (Page. {doc.metadata.get('page', 0) + 1})",
\* held as the sequence of its pieces
source_str(doc) == <<doc.source, " (Page. ", ToStr(doc.page + 1), ")">>

RECURSIVE SourcesOf(_, _)
\* the loop that fills `sources` (and `seen`) over docs, from acc on
SourcesOf(docs, acc) ==
    IF docs = <<>> THEN acc
    ELSE SourcesOf(Tail(docs),
                   IF \E k \in 1..Len(acc) : acc[k] = source_str(Head(docs))
                   THEN acc ELSE Append(acc, source_str(Head(docs))))

\* results[:5]
Top5(docs) == SubSeq(docs, 1, Min({5, Len(docs)}))

\* What requests.post and res.json() can do: the service returns a
\* completion; the connection fails and requests.post raises; the body is no
\* JSON and res.json() raises; the service reports an error, that is an
\* error status with a JSON body {"error": ...}, which neither call raises
\* on and which has no "response" key.
Completions == {"completed", "transport_error", "not_json", "service_error"}

\* the try block: {"answer": ..., "sources": sources} with status 200, or
\* HTTPException(500, "Error AI"); completion records what the service did
\* and posts counts the calls of requests.post
ReplyTo(outcome, cited) ==
    IF outcome \in {"transport_error", "not_json"}
    THEN [status |-> 500, answer |-> "Error AI", sources |-> <<>>,
          completion |-> outcome, posts |-> 1]
    ELSE [status |-> 200,
          answer |-> IF outcome = "completed" THEN "response" ELSE "",
          sources |-> cited, completion |-> outcome, posts |-> 1]

\* the rest of chat_endpoint: the context, the sources, the prompt and the
\* completion call
Complete ==
    /\ pc = "ranked"
    /\ sources' = SourcesOf(Top5(results), <<>>)
    /\ \E outcome \in Completions : reply' = ReplyTo(outcome, sources')
    /\ pc' = "replied"
    /\ UNCHANGED <<question, query_info, lookups, results, candidates,
                   scored_results, filename, content, strategy>>
    /\ UNCHANGED <<impl, parts, current_chunk, current_article, chunks, table,
                   ingest>>

ChatQuestions ==
    { W_Pasal5,
      W_Pasal5 \o W_sp \o W_pasal10,
      W_Pasal5 \o W_sp \o W_Pasal5,
      W_libur \o W_sp \o W_Mei,
      W_libur \o W_sp \o LowerStr(W_Mei),
      W_Mei \o W_sp \o W_juni,
      W_libur,
      W_dan,
      W_tgl15 }

Init ==
    /\ pc = "start"
    /\ question \in ChatQuestions
    /\ query_info = NoInfo
    /\ lookups = <<>>
    /\ results = <<>>
    /\ candidates = <<>>
    /\ scored_results = <<>>
    /\ filename = <<>>
    /\ content = <<>>
    /\ strategy = "none"
    /\ NewIdle

Next ==
    \/ ParseQuery
    \/ ArticleLookup
    \/ ArticleFallback
    \/ MonthLookup
    \/ KalenderFallback
    \/ GeneralLookup
    \/ Rerank
    \/ Complete

Spec == Init /\ [][Next]_vars

-----------------------------------------------------------------------------
(* The re-ranker on its own: one candidate list and one query analysis *)

RKeywords == {<<>>, <<W_libur>>, <<W_libur, T_umum, W_libur>>}
RArticles == {<<>>, <<5>>, <<10>>, <<1>>, <<5, 10>>}

Analysis(nums, kws) ==
    [error |-> "none",
     doc_type |-> IF nums # <<>> THEN "peraturan" ELSE "general",
     article_numbers |-> nums, months |-> <<>>, dates |-> <<>>,
     query_type |-> IF Len(nums) > 1 THEN "comparison"
                    ELSE IF Len(nums) = 1 THEN "specific_article"
                    ELSE "general",
     keywords |-> kws]

InitRerank ==
    /\ pc = "retrieved"
    /\ question = <<>>
    /\ query_info \in {Analysis(n, k) : n \in RArticles, k \in RKeywords}
    /\ lookups = <<>>
    /\ results \in SeqsUpTo(RDocs, MaxCands)
    /\ candidates = <<>>
    /\ scored_results = <<>>
    /\ filename = <<>>
    /\ content = <<>>
    /\ strategy = "none"
    /\ NewIdle

NextRerank == Rerank

SpecRerank == InitRerank /\ [][NextRerank]_vars

-----------------------------------------------------------------------------
(* Claims about the retrieval of chat_endpoint *)

\* the results of the first n lookups, concatenated
RECURSIVE ConcatReturned(_, _)
ConcatReturned(ls, n) ==
    IF n = 0 THEN <<>> ELSE ConcatReturned(ls, n - 1) \o ls[n].returned

\* the list the retrieval hands on
CandidateList == IF pc = "ranked" THEN candidates ELSE results

Analysed == pc \in {"parsed", "retrieved", "ranked"}
Retrieved == pc \in {"retrieved", "ranked"}

\* C4: with article numbers, one lookup (article_number = n, k = 5) per
\* queried number in list order; the candidates are the concatenation of their
\* results, not deduplicated; the one unfiltered top-10 lookup is issued iff
\* that concatenation is empty; no month or doc_type lookup is issued.
C4_ArticleBranch ==
    (Analysed /\ query_info.article_numbers # <<>>) =>
        LET nums == query_info.article_numbers
            n    == Len(nums)
        IN  /\ Len(lookups) <= n + 1
            /\ \A i \in 1..Len(lookups) :
                  /\ i <= n => /\ lookups[i].filter.key = "article_number"
                               /\ lookups[i].filter.num = nums[i]
                               /\ lookups[i].k = 5
                  /\ i > n  => /\ lookups[i].filter.key = "none"
                               /\ lookups[i].k = 10
            /\ Retrieved =>
                  /\ Len(lookups) >= n
                  /\ Len(lookups) = n + 1 <=> ConcatReturned(lookups, n) = <<>>
                  /\ CandidateList =
                        (IF Len(lookups) = n + 1 THEN lookups[n + 1].returned
                         ELSE ConcatReturned(lookups, n))

C4_Witness ==
    /\ pc = "retrieved"
    /\ Len(query_info.article_numbers) = 2
    /\ Len(lookups) = 3
    /\ lookups[3].returned # <<>>

\* C5: without article numbers and with doc_type kalender, one lookup
\* (month = m, k = 5) per entry of months in order; the lookup filtered by
\* doc_type = kalender (k = 10) is issued iff the concatenated results are
\* empty; no unfiltered lookup is issued. With doc_type general exactly one
\* unfiltered top-10 lookup is issued and nothing else.
C5_CalendarAndGeneralBranch ==
    (Analysed /\ query_info.article_numbers = <<>>) =>
        LET ms == query_info.months
            m  == Len(ms)
        IN  /\ query_info.doc_type = "kalender" =>
                  /\ Len(lookups) <= m + 1
                  /\ \A i \in 1..Len(lookups) :
                        /\ lookups[i].filter.key # "none"
                        /\ i <= m => /\ lookups[i].filter.key = "month"
                                     /\ lookups[i].filter.str = ms[i]
                                     /\ lookups[i].k = 5
                        /\ i > m  => /\ lookups[i].filter.key = "doc_type"
                                     /\ lookups[i].filter.str = "kalender"
                                     /\ lookups[i].k = 10
                  /\ Retrieved =>
                        /\ Len(lookups) >= m
                        /\ Len(lookups) = m + 1
                              <=> ConcatReturned(lookups, m) = <<>>
            /\ query_info.doc_type = "general" =>
                  /\ pc = "parsed" => lookups = <<>>
                  /\ Retrieved =>
                        /\ Len(lookups) = 1
                        /\ lookups[1].filter.key = "none"
                        /\ lookups[1].k = 10
                        /\ CandidateList = lookups[1].returned

C5_Witness ==
    /\ pc = "retrieved"
    /\ query_info.doc_type = "kalender"
    /\ Len(query_info.months) = 2
    /\ Len(lookups) = 3
    /\ lookups[3].filter.key = "doc_type"

\* C6: every entry of months is one of the twelve canonical month names
\* whatever the case used in the question, so that the value of a month
\* lookup equals the month string stored in chunk metadata.
C6_CanonicalMonths ==
    /\ \A i \in 1..Len(query_info.months) :
          \E k \in 1..Len(months_id) : query_info.months[i] = months_id[k]
    /\ \A i \in 1..Len(lookups) :
          lookups[i].filter.key = "month" =>
              lookups[i].filter.str = extract_month_from_text(lookups[i].filter.str)

-----------------------------------------------------------------------------
(* Claims about rerank_results *)

\* lit occurs in the text once the text is lower-cased / in the text as written
InLowered(text, lit) ==
    \E i \in 1..(Len(text) - Len(lit) + 1) :
        \A j \in 1..Len(lit) : Lower(text[i + j - 1]) = lit[j]
AsWritten(text, lit) ==
    \E i \in 1..(Len(text) - Len(lit) + 1) :
        \A j \in 1..Len(lit) : text[i + j - 1] = lit[j]

\* queried numbers (by position in the list) the candidate matches
MetaHits(doc, qi) ==
    {i \in 1..Len(qi.article_numbers) :
        qi.article_numbers[i] \in doc.article_number}
ContentHits(doc, qi) ==
    {i \in 1..Len(qi.article_numbers) :
        \/ InLowered(doc.text, PasalLit1(qi.article_numbers[i]))
        \/ InLowered(doc.text, PasalLit2(qi.article_numbers[i]))}
ContentHitsAsWritten(doc, qi) ==
    {i \in 1..Len(qi.article_numbers) :
        \/ AsWritten(doc.text, PasalLit1(qi.article_numbers[i]))
        \/ AsWritten(doc.text, PasalLit2(qi.article_numbers[i]))}
KeywordHits(doc, qi) ==
    {i \in 1..Len(qi.keywords) : InLowered(doc.text, qi.keywords[i])}

\* C7: with exactly one queried article number n, a candidate whose metadata
\* article_number is n stands strictly before every candidate whose is not,
\* whatever the content lengths.
C7_MetadataMatchFirst ==
    (pc = "ranked" /\ Len(query_info.article_numbers) = 1) =>
        \A i, j \in 1..Len(results) :
            (/\ query_info.article_numbers[1] \in results[i].article_number
             /\ query_info.article_numbers[1] \notin results[j].article_number)
            => i < j

\* what a scored candidate got for its content's article mentions
ContentBoostOf(e) ==
    e[1] - 200000 * Cardinality(MetaHits(e[2], query_info))
         - 5000 * Cardinality(KeywordHits(e[2], query_info))
         - ContentLen(e[2])

\* C8 as stated: the +100 for a queried number n is granted only when the
\* content as written holds the lower-case literal 'pasal <n>'; a content
\* that says 'Pasal <n>' gets no +100.
C8_BoostCaseSensitive ==
    pc = "ranked" =>
        \A p \in 1..Len(scored_results) :
            ContentBoostOf(scored_results[p]) =
                100000 * Cardinality(ContentHitsAsWritten(scored_results[p][2],
                                                          query_info))

\* C8 as amended: the +100 for a queried number n is granted exactly when the
\* lower-cased content holds 'pasal <n>' with one or two blanks, so a content
\* that says 'Pasal <n>' or 'PASAL <n>' gets it too.
C8_BoostOnLoweredContent ==
    pc = "ranked" =>
        \A p \in 1..Len(scored_results) :
            ContentBoostOf(scored_results[p]) =
                100000 * Cardinality(ContentHits(scored_results[p][2], query_info))

C8_Witness ==
    /\ pc = "ranked"
    /\ query_info.article_numbers = <<5>>
    /\ \E p \in 1..Len(scored_results) :
          /\ AsWritten(scored_results[p][2].text, T_Pasal5)
          /\ ~AsWritten(scored_results[p][2].text, PasalLit1(5))
          /\ ContentBoostOf(scored_results[p]) = 100000

\* the score of C9, in thousandths
ClaimedScore(doc, qi) ==
    100000 * Cardinality(ContentHits(doc, qi))
    + 200000 * Cardinality(MetaHits(doc, qi))
    + 5000 * Cardinality(KeywordHits(doc, qi))
    + ContentLen(doc)

Count(seq, x) == Cardinality({i \in 1..Len(seq) : seq[i] = x})

\* C9: the result is a permutation of the input (no candidate dropped or
\* added, duplicates kept) in non-increasing order of score, the score being
\* 100 per content match + 200 per metadata match + 5 per keyword-list entry
\* found in the lower-cased content + content length / 1000.
C9_PermutationByScore ==
    pc = "ranked" =>
        /\ Len(results) = Len(candidates)
        /\ \A d \in RDocs : Count(results, d) = Count(candidates, d)
        /\ \A i, j \in 1..Len(results) :
              i < j => ClaimedScore(results[i], query_info)
                          >= ClaimedScore(results[j], query_info)
        /\ \A p \in 1..Len(scored_results) :
              /\ scored_results[p][2] = results[p]
              /\ scored_results[p][1] = ClaimedScore(results[p], query_info)

C9_Witness ==
    /\ pc = "ranked"
    /\ Len(results) = 3
    /\ results # candidates
    /\ results[2] = results[3]
    /\ query_info.keywords # <<>>
    /\ Len(query_info.article_numbers) = 2

-----------------------------------------------------------------------------
(* document_strategies.py: detection and DocumentStrategyFactory *)

L_Pasal     == <<"P","a","s","a","l">>
L_peraturan == <<"p","e","r","a","t","u","r","a","n">>
L_kalender  == <<"k","a","l","e","n","d","e","r">>

\* r'Pasal\s+\d+' tried at position i: the end of the match, 0 when none
PasalMarkerEnd(s, i) ==
    LET ws == SpaceEnd(s, i + Len(L_Pasal))
        de == DigitEnd(s, ws)
    IN  IF MatchAt(s, i, L_Pasal) /\ ws > i + Len(L_Pasal) /\ de > ws
        THEN de ELSE 0

\* len(re.findall(r'Pasal\s+\d+', s)) from position i on
RECURSIVE PasalCountFrom(_, _)
PasalCountFrom(s, i) ==
    IF i > Len(s) THEN 0
    ELSE LET e == PasalMarkerEnd(s, i)
         IN  IF e > 0 THEN 1 + PasalCountFrom(s, e)
             ELSE PasalCountFrom(s, i + 1)

\* the rest of the date pattern, r'\s+(?:Januari|...|Desember)\s+\d{4}', tried
\* at position d1 with the k-th month: the end of the match, 0 when none
DateTailEnd(s, d1, k) ==
    LET ms == SpaceEnd(s, d1)
        me == ms + Len(months_id[k])
        ys == SpaceEnd(s, me)
    IN  IF /\ ms > d1
           /\ MatchAt(s, ms, months_id[k])
           /\ ys > me
           /\ DigitEnd(s, ys) >= ys + 4
        THEN ys + 4 ELSE 0

\* the rest of the date pattern after a day that ends before d1: the months
\* are tried in the order of the alternation
DateAfterDay(s, d1) ==
    LET ks == {k \in 1..Len(months_id) : DateTailEnd(s, d1, k) > 0}
    IN  IF ks = {} THEN 0 ELSE DateTailEnd(s, d1, Min(ks))

\* r'\d{1,2}\s+(?:Januari|...|Desember)\s+\d{4}' tried at position i: the end
\* of the match, 0 when none. The day takes two digits first, then one.
FullDateEnd(s, i) ==
    IF ~(i <= Len(s) /\ IsDigit(s[i])) THEN 0
    ELSE LET two == IF DigitEnd(s, i) >= i + 2 THEN DateAfterDay(s, i + 2)
                    ELSE 0
         IN  IF two > 0 THEN two ELSE DateAfterDay(s, i + 1)

\* len(re.findall(<the date pattern>, s)) from position i on
RECURSIVE FullDateCountFrom(_, _)
FullDateCountFrom(s, i) ==
    IF i > Len(s) THEN 0
    ELSE LET e == FullDateEnd(s, i)
         IN  IF e > 0 THEN 1 + FullDateCountFrom(s, e)
             ELSE FullDateCountFrom(s, i + 1)

PeraturanStrategy_detect(filename_, content_) ==
    LET pasal_count == PasalCountFrom(content_, 1)
    IN  pasal_count >= 3 \/ Contains(LowerStr(filename_), L_peraturan)

KalenderStrategy_detect(filename_, content_) ==
    LET has_kalender == Contains(LowerStr(filename_), L_kalender)
        date_count   == FullDateCountFrom(content_, 1)
    IN  has_kalender \/ date_count >= 5

GenericStrategy_detect(filename_, content_) == TRUE

detect(strategy_class, filename_, content_) ==
    CASE strategy_class = "PeraturanStrategy" ->
             PeraturanStrategy_detect(filename_, content_)
      [] strategy_class = "KalenderStrategy" ->
             KalenderStrategy_detect(filename_, content_)
      [] strategy_class = "GenericStrategy" ->
             GenericStrategy_detect(filename_, content_)

\* a mutant: the calendar strategy is asked first
STRATEGIES_KalenderFirst ==
    <<"KalenderStrategy", "PeraturanStrategy", "GenericStrategy">>

STRATEGIES == <<"PeraturanStrategy", "KalenderStrategy", "GenericStrategy">>

\* the first strategy of the list whose detect accepts the document
get_strategy(filename_, content_) ==
    LET hits == {k \in 1..Len(STRATEGIES) :
                    detect(STRATEGIES[k], filename_, content_)}
    IN  IF hits = {} THEN "GenericStrategy" ELSE STRATEGIES[Min(hits)]

-----------------------------------------------------------------------------
(* The strategy selector on its own: one document *)

D_Pasal1  == <<"P","a","s","a","l"," ","1">>
D_pasal2  == <<"p","a","s","a","l"," ","2">>
D_date    == <<"1","2"," ","M","e","i"," ","2","0","2","4">>
D_newline == <<"\n">>

DocVocab == {D_Pasal1, D_pasal2, D_date, D_newline}

Contents == {Flatten(ts) : ts \in SeqsUpTo(DocVocab, MaxDocTokens)}

Filenames ==
    { <<"P","e","r","a","t","u","r","a","n",".","p","d","f">>,
      <<"K","A","L","E","N","D","E","R",".","p","d","f">>,
      <<"k","a","l","e","n","d","e","r","_","p","e","r","a","t","u","r","a","n">>,
      <<"b","u","k","u",".","p","d","f">> }

InitStrategy ==
    /\ pc = "start"
    /\ question = <<>>
    /\ query_info = NoInfo
    /\ lookups = <<>>
    /\ results = <<>>
    /\ candidates = <<>>
    /\ scored_results = <<>>
    /\ filename \in Filenames
    /\ content \in Contents
    /\ strategy = "none"
    /\ NewIdle

\* DocumentStrategyFactory.get_strategy(filename, content)
GetStrategy ==
    /\ pc = "start"
    /\ strategy' = get_strategy(filename, content)
    /\ pc' = "selected"
    /\ UNCHANGED <<question, query_info, lookups, results, candidates,
                   scored_results, filename, content>>
    /\ UNCHANGED newVars

NextStrategy == GetStrategy

SpecStrategy == InitStrategy /\ [][NextStrategy]_vars

-----------------------------------------------------------------------------
(* Claims about the strategy selector *)

\* positions where an article marker 'Pasal <n>' starts
MarkerStarts(s) ==
    {i \in 1..Len(s) :
        /\ i + 4 <= Len(s)
        /\ SubSeq(s, i, i + 4) = L_Pasal
        /\ \E j \in (i + 6)..Len(s) :
              /\ IsDigit(s[j])
              /\ \A k \in (i + 5)..(j - 1) : IsSpace(s[k])}

\* first position of the run of blanks that ends at position j (j + 1 when
\* s[j] is no blank)
SpaceStartBack(s, j) ==
    LET stop == {i \in 1..j : ~IsSpace(s[i])}
    IN  IF stop = {} THEN 1 ELSE Max(stop) + 1

\* a full date expression ends at position b: read backwards, a year of four
\* digits, blanks, a month name, blanks, and a digit of the day
IsFullDateEnd(s, b) ==
    /\ b >= 4
    /\ \A p \in (b - 3)..b : IsDigit(s[p])
    /\ LET y == SpaceStartBack(s, b - 4)
       IN  /\ y <= b - 4
           /\ \E k \in 1..Len(months_id) :
                 LET m == y - Len(months_id[k])
                     d == SpaceStartBack(s, m - 1)
                 IN  /\ m >= 1
                     /\ SubSeq(s, m, y - 1) = months_id[k]
                     /\ d <= m - 1
                     /\ d >= 2
                     /\ IsDigit(s[d - 1])

\* positions where a full date expression ends
FullDateEnds(s) == {b \in 1..Len(s) : IsFullDateEnd(s, b)}

IsRegulation(f, c) ==
    Cardinality(MarkerStarts(c)) >= 3 \/ InLowered(f, L_peraturan)
IsCalendar(f, c) ==
    InLowered(f, L_kalender) \/ Cardinality(FullDateEnds(c)) >= 5

\* C10: get_strategy returns the first of Regulation, Calendar, Generic whose
\* detect is true: Regulation iff the content has >= 3 'Pasal <n>' markers or
\* the filename contains 'peraturan'; otherwise Calendar iff the filename
\* contains 'kalender' or the content has >= 5 full date expressions;
\* otherwise Generic. It never returns none.
C10_StrategySelection ==
    pc = "selected" =>
        strategy =
           (IF IsRegulation(filename, content) THEN "PeraturanStrategy"
            ELSE IF IsCalendar(filename, content) THEN "KalenderStrategy"
            ELSE "GenericStrategy")

C10_Witness ==
    /\ pc = "selected"
    /\ strategy = "PeraturanStrategy"
    /\ ~InLowered(filename, L_peraturan)
    /\ InLowered(filename, L_kalender)

-----------------------------------------------------------------------------
(* The article split: PeraturanStrategy.chunk and smart_split_by_articles *)

\* the default of the parameter max_chunk_size, and the splitter's overlap
max_chunk_size == 2000
chunk_overlap  == 200

\* A text is a sequence of characters in which Fill stands for a run of
\* FillLen characters that are neither blanks, letters nor digits; a text of
\* a few characters can then be longer than max_chunk_size.
Fill    == "#"
FillLen == 900

RECURSIVE StrLen(_)
\* len(s)
StrLen(s) ==
    IF s = <<>> THEN 0
    ELSE (IF Head(s) = Fill THEN FillLen ELSE 1) + StrLen(Tail(s))

\* s.strip()
strip(s) ==
    LET keep == {i \in 1..Len(s) : ~IsSpace(s[i])}
    IN  IF keep = {} THEN <<>> ELSE SubSeq(s, Min(keep), Max(keep))

RECURSIVE re_split(_, _, _)
\* re.split(r'(Pasal\s+\d+)', s), scanning at position i with the text part
\* in progress begun at position from: text parts and markers alternate
re_split(s, from, i) ==
    IF i > Len(s) THEN <<SubStr(s, from, Len(s) + 1)>>
    ELSE LET e == PasalMarkerEnd(s, i)
         IN  IF e > 0
             THEN <<SubStr(s, from, i), SubStr(s, i, e)>> \o re_split(s, e, e)
             ELSE re_split(s, from, i + 1)

\* re.match(pasal_pattern, part.strip())
IsMarkerPart(part) == PasalMarkerEnd(strip(part), 1) > 0

RECURSIVE PasalSearchFrom(_, _)
\* re.search(r'Pasal\s+(\d+)', s): the start of the first match, 0 when none
PasalSearchFrom(s, i) ==
    IF i > Len(s) THEN 0
    ELSE IF PasalMarkerEnd(s, i) > 0 THEN i
    ELSE PasalSearchFrom(s, i + 1)

RECURSIVE LowerPasalSearchFrom(_, _)
\* re.search(r'pasal\s+(\d+)', s): the start of the first match, 0 when none
LowerPasalSearchFrom(s, i) ==
    IF i > Len(s) THEN 0
    ELSE IF /\ MatchAt(s, i, L_pasal)
            /\ SpaceEnd(s, i + 5) > i + 5
            /\ DigitEnd(s, SpaceEnd(s, i + 5)) > SpaceEnd(s, i + 5)
         THEN i
    ELSE LowerPasalSearchFrom(s, i + 1)

\* int(match.group(1)) of a match of 'Pasal\s+(\d+)' or 'pasal\s+(\d+)' that
\* starts at position i
GroupNumber(s, i) ==
    LET ws == SpaceEnd(s, i + 5)
    IN  ToInt(SubStr(s, ws, DigitEnd(s, ws)))

\* a split that records no article number
SearchedArticleNone(part) == {}

\* int(match.group(1)) if match else None, an optional number being a set of
\* at most one element
SearchedArticle(part) ==
    LET i == PasalSearchFrom(part, 1)
    IN  IF i > 0 THEN {GroupNumber(part, i)} ELSE {}

\* utils.extract_article_number
extract_article_number(text) ==
    LET i == PasalSearchFrom(text, 1)
        j == LowerPasalSearchFrom(text, 1)
    IN  IF i > 0 THEN {GroupNumber(text, i)}
        ELSE IF j > 0 THEN {GroupNumber(text, j)}
        ELSE {}

\* RecursiveCharacterTextSplitter.split_text is a library call.  A text that
\* fits in chunk_size is returned trimmed as one piece (none when blank).
\* Otherwise, with the separators given, it cuts at blanks as long as no
\* single word is longer than chunk_size, and it returns trimmed pieces: each
\* piece is a run of whole words of s, at most chunk_size long; the pieces
\* are in text order, the first starts at the first word and the last ends at
\* the last word; a piece starts no later than the word after its
\* predecessor's end, and what it shares with its predecessor is at most
\* chunk_overlap long.
WordStarts(s) ==
    {i \in 1..Len(s) : ~IsSpace(s[i]) /\ (i = 1 \/ IsSpace(s[i - 1]))}
WordEnds(s) ==
    {i \in 1..Len(s) : ~IsSpace(s[i]) /\ (i = Len(s) \/ IsSpace(s[i + 1]))}

\* the spans <<a, b>> a piece may take after a piece that spans <<a0, b0>>
NextSpans(s, size, overlap, a0, b0) ==
    {p \in WordStarts(s) \X WordEnds(s) :
        /\ p[1] > a0
        /\ p[1] <= Min({w \in WordStarts(s) : w > b0})
        /\ p[2] > b0
        /\ StrLen(SubSeq(s, p[1], p[2])) <= size
        /\ StrLen(SubSeq(s, p[1], b0)) <= overlap}

RECURSIVE SpansAfter(_, _, _, _, _)
\* the sequences of spans that may follow the span <<a0, b0>>
SpansAfter(s, size, overlap, a0, b0) ==
    IF b0 = Max(WordEnds(s)) THEN {<<>>}
    ELSE UNION {{<<p>> \o rest :
                    rest \in SpansAfter(s, size, overlap, p[1], p[2])} :
                   p \in NextSpans(s, size, overlap, a0, b0)}

\* the values splitter.split_text(s) may return
split_text(s, size, overlap) ==
    IF strip(s) = <<>> THEN {<<>>}
    ELSE IF StrLen(strip(s)) <= size THEN {<<strip(s)>>}
    ELSE LET a1 == Min(WordStarts(s))
             firsts == {b \in WordEnds(s) : StrLen(SubSeq(s, a1, b)) <= size}
             spans == UNION {{<<<<a1, b>>>> \o rest :
                                 rest \in SpansAfter(s, size, overlap, a1, b)} :
                                b \in firsts}
         IN  {[k \in 1..Len(sp) |-> SubSeq(s, sp[k][1], sp[k][2])] :
                 sp \in spans}

\* the dict appended to `chunks`; doc_type is what the splitter itself puts
\* in the chunk's metadata (smart_split_by_articles copies the metadata as it
\* is), and flushed records which of the three append statements emitted it
Emitted(text, article, how) ==
    [content |-> text, article_number |-> article,
     doc_type |-> IF impl = "PeraturanStrategy.chunk" THEN "peraturan"
                  ELSE "unset",
     flushed |-> how]

S_Pasal1 == <<"P","a","s","a","l"," ","1">>
S_Pasal2 == <<"P","a","s","a","l"," ","2">>
S_fill   == <<" ","#"," ","#">>
S_blank  == <<" ">>

SplitVocab == {S_Pasal1, S_Pasal2, S_fill, S_blank}

MaxSplitTokens == 5

SplitTexts == {Flatten(ts) : ts \in SeqsUpTo(SplitVocab, MaxSplitTokens)}

InitSplit ==
    /\ pc = "start"
    /\ question = <<>>
    /\ query_info = NoInfo
    /\ lookups = <<>>
    /\ results = <<>>
    /\ candidates = <<>>
    /\ scored_results = <<>>
    /\ filename = <<>>
    /\ content \in SplitTexts
    /\ strategy = "none"
    /\ impl \in {"PeraturanStrategy.chunk", "smart_split_by_articles"}
    /\ parts = <<>>
    /\ current_chunk = <<>>
    /\ current_article = {}
    /\ chunks = <<>>
    /\ table = <<>>
    /\ ingest = <<>>
    /\ sources = <<>>
    /\ reply = <<>>

\* what the split leaves alone
splitFrame == <<question, query_info, lookups, results, candidates,
                scored_results, filename, content, strategy, impl, table,
                ingest, sources, reply>>

\* parts = re.split(pasal_pattern, text); current_chunk = ""; ...
SplitStart ==
    /\ pc = "start"
    /\ parts' = re_split(content, 1, 1)
    /\ current_chunk' = <<>>
    /\ current_article' = {}
    /\ chunks' = <<>>
    /\ pc' = "loop"
    /\ UNCHANGED splitFrame

\* one turn of the loop on a part that is an article marker
MarkerPart ==
    /\ pc = "loop"
    /\ parts # <<>>
    /\ IsMarkerPart(Head(parts))
    /\ chunks' = IF strip(current_chunk) # <<>>
                 THEN Append(chunks, Emitted(strip(current_chunk),
                                             current_article, "marker"))
                 ELSE chunks
    /\ current_chunk' = Head(parts)
    /\ current_article' = IF impl = "PeraturanStrategy.chunk"
                          THEN SearchedArticle(Head(parts))
                          ELSE extract_article_number(Head(parts))
    /\ parts' = Tail(parts)
    /\ UNCHANGED pc
    /\ UNCHANGED splitFrame

\* a turn of the loop that appends the part and never calls the splitter
TextPartNoSplit ==
    /\ pc = "loop"
    /\ parts # <<>>
    /\ ~IsMarkerPart(Head(parts))
    /\ current_chunk' = current_chunk \o Head(parts)
    /\ parts' = Tail(parts)
    /\ UNCHANGED <<pc, current_article, chunks>>
    /\ UNCHANGED splitFrame

\* one turn of the loop on any other part
TextPart ==
    /\ pc = "loop"
    /\ parts # <<>>
    /\ ~IsMarkerPart(Head(parts))
    /\ LET acc == current_chunk \o Head(parts)
       IN  IF StrLen(acc) > max_chunk_size
           THEN \E sub_chunks \in split_text(acc, max_chunk_size,
                                              chunk_overlap) :
                   /\ chunks' = chunks \o
                         [k \in 1..(Len(sub_chunks) - 1) |->
                             Emitted(sub_chunks[k], current_article,
                                     "overflow")]
                   /\ current_chunk' = IF sub_chunks # <<>>
                                       THEN sub_chunks[Len(sub_chunks)]
                                       ELSE <<>>
           ELSE /\ current_chunk' = acc
                /\ chunks' = chunks
    /\ parts' = Tail(parts)
    /\ UNCHANGED <<pc, current_article>>
    /\ UNCHANGED splitFrame

\* a return that forgets the accumulator
ReturnWithoutFlush ==
    /\ pc = "loop"
    /\ parts = <<>>
    /\ pc' = "returned"
    /\ UNCHANGED <<parts, current_chunk, current_article, chunks>>
    /\ UNCHANGED splitFrame

\* the flush after the loop, and the return
FinalFlush ==
    /\ pc = "loop"
    /\ parts = <<>>
    /\ chunks' = IF strip(current_chunk) # <<>>
                 THEN Append(chunks, Emitted(strip(current_chunk),
                                             current_article, "end"))
                 ELSE chunks
    /\ pc' = "returned"
    /\ UNCHANGED <<parts, current_chunk, current_article>>
    /\ UNCHANGED splitFrame

NextSplit == SplitStart \/ MarkerPart \/ TextPart \/ FinalFlush

SpecSplit == InitSplit /\ [][NextSplit]_vars

-----------------------------------------------------------------------------
(* Claims about the article split *)

\* the numbers of the article markers of s, in text order
MarkerNumbers(s) ==
    [k \in 1..Cardinality(MarkerStarts(s)) |->
        {Horner(s, SpaceEnd(s, Nth(MarkerStarts(s), k) + 5), 0)}]

\* the article_number tags of the chunks emitted, in emission order
EmittedTags == [k \in 1..Len(chunks) |-> chunks[k].article_number]

\* the text before the first marker
Preamble(s) ==
    IF MarkerStarts(s) = {} THEN s ELSE SubStr(s, 1, Min(MarkerStarts(s)))

\* the blocks of s: the preamble, and every article from its marker up to
\* the next marker or the end of the text
BlockStarts(s) == ({1} \cup MarkerStarts(s)) \cap (1..Len(s))
BlockOf(s, i) ==
    SubStr(s, i, Min({j \in MarkerStarts(s) \cup {Len(s) + 1} : j > i}))
NoBlockOverflows(s) ==
    \A i \in BlockStarts(s) : StrLen(BlockOf(s, i)) <= max_chunk_size

\* C11 as stated: for a text with n >= 3 article markers the split returns
\* one chunk per marker, possibly after one preamble chunk, and the
\* article_number tags are (none for the preamble, then) the marker numbers
\* in text order.
C11_OneChunkPerMarker ==
    (pc = "returned" /\ Cardinality(MarkerStarts(content)) >= 3)
        => \/ EmittedTags = MarkerNumbers(content)
           \/ EmittedTags = <<{}>> \o MarkerNumbers(content)

\* C11 amended: the same for a text with n >= 3 article markers none of
\* whose blocks (preamble or article) is longer than max_chunk_size; the
\* preamble chunk is there exactly when the preamble is not blank.
C11_OneChunkPerMarkerNoOverflow ==
    (/\ pc = "returned"
     /\ Cardinality(MarkerStarts(content)) >= 3
     /\ NoBlockOverflows(content))
        => EmittedTags = (IF strip(Preamble(content)) # <<>>
                          THEN <<{}>> ELSE <<>>) \o MarkerNumbers(content)

\* a text with a preamble, three markers and an article body was split
C11_Witness ==
    /\ pc = "returned"
    /\ Cardinality(MarkerStarts(content)) = 3
    /\ NoBlockOverflows(content)
    /\ Len(chunks) = 4
    /\ \E k \in 1..Len(chunks) :
          /\ chunks[k].article_number # {}
          /\ Len(chunks[k].content) > Len(S_Pasal1)

RECURSIVE Lays(_, _, _, _)
\* The chunks from the k-th on can be laid on s in emission order, each at an
\* occurrence of its content, so that they cover s from position pos on.  A
\* chunk that follows an overflow sub-chunk may begin before pos and repeat
\* at most chunk_overlap characters of its predecessor; when blanks is TRUE
\* the whitespace found at pos may be skipped, when FALSE nothing may.
Lays(s, k, pos, blanks) ==
    LET at == IF blanks THEN SpaceEnd(s, pos) ELSE pos
    IN  IF k > Len(chunks) THEN at = Len(s) + 1
        ELSE \E a \in 1..at :
                /\ MatchAt(s, a, chunks[k].content)
                /\ a + Len(chunks[k].content) > pos
                /\ a < pos => /\ k > 1
                              /\ chunks[k - 1].flushed = "overflow"
                              /\ StrLen(SubStr(s, a, pos)) <= chunk_overlap
                /\ Lays(s, k + 1, a + Len(chunks[k].content), blanks)

\* C12 as stated: the contents of the chunks of one run, concatenated in
\* emission order with the declared overlaps taken out, are the source text:
\* every chunk content is a contiguous substring and no character is lost.
C12_ChunksReproduceText ==
    pc = "returned" => Lays(content, 1, 1, FALSE)

\* C12 amended: the same up to the whitespace that trimming removes at the
\* chunk boundaries: every chunk content is a contiguous substring of the
\* source, the chunks follow one another in text order, and no character
\* other than whitespace between two chunks, before the first or after the
\* last is lost.
C12_ChunksReproduceTextUpToBlanks ==
    pc = "returned" => Lays(content, 1, 1, TRUE)

\* a text with leading whitespace was split at a marker and on overflow
C12_Witness ==
    /\ pc = "returned"
    /\ content # <<>>
    /\ IsSpace(content[1])
    /\ \E k \in 1..Len(chunks) : chunks[k].flushed = "overflow"
    /\ \E k \in 1..Len(chunks) : chunks[k].flushed = "marker"
    /\ \E k \in 1..Len(chunks) : chunks[k].flushed = "end"

\* C19: with a recursive splitter that returns non-empty pieces of at most
\* max_chunk_size characters, every chunk the article split emits, whether
\* flushed at a marker, as an overflow sub-chunk or at the end of the text,
\* has a content that is non-empty after trimming and at most max_chunk_size
\* characters long.
C19_ChunksNonEmptyAndBounded ==
    \A k \in 1..Len(chunks) :
        /\ strip(chunks[k].content) # <<>>
        /\ StrLen(chunks[k].content) <= max_chunk_size

\* a run emitted chunks by each of the three flushes, and the accumulator
\* had grown beyond max_chunk_size before the splitter cut it
C19_Witness ==
    /\ pc = "returned"
    /\ StrLen(content) > 2 * max_chunk_size
    /\ \E k \in 1..Len(chunks) :
          /\ chunks[k].flushed = "overflow"
          /\ StrLen(chunks[k].content) > max_chunk_size - FillLen
    /\ \E k \in 1..Len(chunks) : chunks[k].flushed = "marker"
    /\ \E k \in 1..Len(chunks) :
          /\ chunks[k].flushed = "end"
          /\ chunks[k].article_number # {}

-----------------------------------------------------------------------------
(* table_extractor.py: CalendarTableExtractor *)

\* the length of the month name that stands at position i of s under
\* re.IGNORECASE, 0 when none does (no month name is a prefix of another)
MonthLenAt(s, i) ==
    LET ks == {k \in 1..Len(months_id) : MatchAtI(s, i, months_id[k])}
    IN  IF ks = {} THEN 0 ELSE Len(months_id[Min(ks)])

\* The first date pattern,
\*   (\d{1,2})\s*-?\s*(\d{1,2})?\s*(Januari|...|Desember)\s*(\d{4})?
\* tried at position i: the end of the match, 0 when none.  A run of three
\* or four digits is the day and the second number together and must be
\* followed by blanks and the month; a run of one or two digits is the day
\* and may be followed by blanks, a dash, blanks and a second number of at
\* most two digits.  The blanks after the month belong to the match, the
\* year only when four digits follow them.
DateSpanEnd(s, i) ==
    LET r1 == DigitEnd(s, i) - i
        p  == SpaceEnd(s, i + r1)
        p2 == IF p <= Len(s) /\ s[p] = "-" THEN p + 1 ELSE p
        p3 == SpaceEnd(s, p2)
        r2 == DigitEnd(s, p3) - p3
        m  == IF r1 >= 3 THEN p ELSE SpaceEnd(s, p3 + r2)
        ok == /\ r1 >= 1
              /\ r1 <= 4
              /\ r1 <= 2 => r2 <= 2
              /\ MonthLenAt(s, m) > 0
        w  == SpaceEnd(s, m + MonthLenAt(s, m))
    IN  IF ~ok THEN 0
        ELSE IF DigitEnd(s, w) - w >= 4 THEN w + 4 ELSE w

RECURSIVE DateSearchFrom(_, _)
\* re.search of the first date pattern from position i on: match.group(0),
\* the empty string standing for None
DateSearchFrom(s, i) ==
    IF i > Len(s) THEN <<>>
    ELSE IF DateSpanEnd(s, i) > 0 THEN SubStr(s, i, DateSpanEnd(s, i))
    ELSE DateSearchFrom(s, i + 1)

\* CalendarTableExtractor.extract_date_from_text; every match of the second
\* pattern is a match of the first, which is tried first
extract_date_from_text(text) == DateSearchFrom(text, 1)

\* Python's None among the cells and column labels, which are strings
NoneValue == <<"None">>

L_nan          == <<"n","a","n">>
L__source_page == <<"_","s","o","u","r","c","e","_","p","a","g","e">>
L__table_index == <<"_","t","a","b","l","e","_","i","n","d","e","x">>

\* pd.DataFrame(table[1:], columns=table[0]) with the two columns that
\* extract_tables_from_pdf adds; their integers are held as decimal strings
DataFrameOf(tbl, page_num, table_idx) ==
    [columns |-> Head(tbl) \o <<L__source_page, L__table_index>>,
     rows    |-> [r \in 1..(Len(tbl) - 1) |->
                     tbl[r + 1] \o <<ToStr(page_num + 1), ToStr(table_idx)>>]]

\* row.get(label, 0) for a column of integers
RowGet(df, row, label) ==
    LET cs == {c \in 1..Len(df.columns) : df.columns[c] = label}
    IN  IF cs = {} THEN 0 ELSE ToInt(row[Max(cs)])

\* str(value).strip() if value and str(value) != 'nan' else ''
value_str(value) ==
    IF value = NoneValue \/ value = <<>> \/ value = L_nan THEN <<>>
    ELSE strip(value)

\* sep.join(ss)
RECURSIVE Join(_, _)
Join(ss, sep) ==
    IF ss = <<>> THEN <<>>
    ELSE IF Len(ss) = 1 THEN ss[1]
    ELSE ss[1] \o sep \o Join(Tail(ss), sep)

\* lst with x appended unless x is None (the empty string) or already there
AppendNew(lst, x) ==
    IF x = <<>> \/ \E k \in 1..Len(lst) : lst[k] = x THEN lst
    ELSE Append(lst, x)

RECURSIVE RowScan(_, _, _, _)
\* the loop over row.items() from column c on; acc holds row_texts,
\* months_list and dates_list
RowScan(df, row, c, acc) ==
    IF c > Len(df.columns) THEN acc
    ELSE LET col_name == df.columns[c]
             v == value_str(row[c])
         IN  IF (col_name # <<>> /\ col_name[1] = "_") \/ v = <<>>
             THEN RowScan(df, row, c + 1, acc)
             ELSE RowScan(df, row, c + 1,
                     [row_texts |-> Append(acc.row_texts,
                                           col_name \o <<":", " ">> \o v),
                      months_list |-> AppendNew(acc.months_list,
                                          extract_month_from_text(v)),
                      dates_list |-> AppendNew(acc.dates_list,
                                          extract_date_from_text(v))])

\* the chunk appended for a row; a key that is not set is the empty string
RowChunk(df, row, source_filename) ==
    LET acc == RowScan(df, row, 1, [row_texts |-> <<>>, months_list |-> <<>>,
                                    dates_list |-> <<>>])
    IN  IF acc.row_texts = <<>> THEN <<>>
        ELSE <<[content |-> Join(acc.row_texts, <<" ", "|", " ">>),
                source |-> source_filename,
                page |-> RowGet(df, row, L__source_page),
                table_index |-> RowGet(df, row, L__table_index),
                doc_type |-> "kalender",
                month |-> IF acc.months_list = <<>> THEN <<>>
                          ELSE acc.months_list[1],
                months |-> Join(acc.months_list, <<",", " ">>),
                date |-> IF acc.dates_list = <<>> THEN <<>>
                         ELSE acc.dates_list[1],
                dates |-> Join(acc.dates_list, <<",", " ">>)]>>

\* col_name.startswith('_') raises AttributeError on a label that is None,
\* in the first row the loop visits
LabelRaises(df) ==
    /\ df.rows # <<>>
    /\ \E c \in 1..Len(df.columns) : df.columns[c] = NoneValue

\* CalendarTableExtractor.table_to_chunks
table_to_chunks(df, source_filename) ==
    IF LabelRaises(df) THEN [error |-> "AttributeError", chunks |-> <<>>]
    ELSE [error |-> "none",
          chunks |-> Flatten([r \in 1..Len(df.rows) |->
                                RowChunk(df, df.rows[r], source_filename)])]

\* the tables page.extract_tables() returns: a header row and data rows
H_Tgl   == <<"T","g","l">>
H_Acara == <<"A","c","a","r","a">>
H__id   == <<"_","i","d">>

Headers == {<<H_Tgl, H_Acara>>, <<NoneValue, H_Acara>>, <<H__id, H_Acara>>}

V_blank   == <<" ">>
V_Mei     == <<"M","e","i">>
V_1Mei    == <<"1"," ","M","e","i">>
V_JuniMei == <<"J","u","n","i"," ","M","e","i">>

CellVocab == {NoneValue, V_blank, L_nan, V_Mei, V_1Mei, V_JuniMei}

MaxRows    == 2
MaxPageNum == 1

Tables ==
    {<<h>> \o body : h \in Headers,
                     body \in SeqsUpTo(CellVocab \X CellVocab, MaxRows)}

InitTable ==
    /\ pc = "start"
    /\ question = <<>>
    /\ query_info = NoInfo
    /\ lookups = <<>>
    /\ results = <<>>
    /\ candidates = <<>>
    /\ scored_results = <<>>
    /\ filename = <<>>
    /\ content = <<>>
    /\ strategy = "none"
    /\ impl = "none"
    /\ parts = <<>>
    /\ current_chunk = <<>>
    /\ current_article = {}
    /\ chunks = <<>>
    /\ \E tbl \in Tables, page_num \in 0..MaxPageNum :
          table = DataFrameOf(tbl, page_num, 0)
    /\ ingest = <<>>
    /\ sources = <<>>
    /\ reply = <<>>

\* chunks = CalendarTableExtractor.table_to_chunks(table_df, source_filename)
TableToChunks ==
    /\ pc = "start"
    /\ LET out == table_to_chunks(table, "kalender.pdf")
       IN  /\ chunks' = out.chunks
           /\ pc' = IF out.error = "none" THEN "returned" ELSE "raised"
    /\ UNCHANGED <<question, query_info, lookups, results, candidates,
                   scored_results, filename, content, strategy, impl, parts,
                   current_chunk, current_article, table, ingest, sources,
                   reply>>

NextTable == TableToChunks

SpecTable == InitTable /\ [][NextTable]_vars

-----------------------------------------------------------------------------
(* Claims about table_to_chunks *)

\* a cell that holds text, and a column that is not private
NonEmptyCell(v) == v # NoneValue /\ strip(v) # <<>>
PublicColumn(label) == label = <<>> \/ label[1] # "_"

\* '<column name>: <value>' over the non-empty cells of the public columns
\* of a row, in column order
ExpectedTexts(df, row) ==
    LET cs == {c \in 1..Len(df.columns) :
                  PublicColumn(df.columns[c]) /\ NonEmptyCell(row[c])}
    IN  [k \in 1..Cardinality(cs) |->
            df.columns[Nth(cs, k)] \o <<":", " ">> \o strip(row[Nth(cs, k)])]

\* the contents expected of a table: one per row that has such a cell
ExpectedContents(df) ==
    LET rs == {r \in 1..Len(df.rows) : ExpectedTexts(df, df.rows[r]) # <<>>}
    IN  [k \in 1..Cardinality(rs) |->
            Join(ExpectedTexts(df, df.rows[Nth(rs, k)]), <<" ", "|", " ">>)]

\* C14: table_to_chunks returns, without error, one chunk per data row that
\* has a non-empty cell in a column whose name does not start with '_', in
\* row order, none for the other rows, and each content is the ' | '-join of
\* '<column name>: <value>' over those cells in column order.
C14_OneChunkPerRow ==
    (table # <<>> /\ pc # "start")
        => /\ pc = "returned"
           /\ [k \in 1..Len(chunks) |-> chunks[k].content]
                 = ExpectedContents(table)

\* the canonical names of the months that occur in s, in text order
MonthsIn(s) ==
    LET ps == {i \in 1..Len(s) : MonthLenAt(s, i) > 0}
    IN  [k \in 1..Cardinality(ps) |->
            months_id[Min({m \in 1..Len(months_id) :
                              MatchAtI(s, Nth(ps, k), months_id[m])})]]

RECURSIVE DatesFrom(_, _)
\* the date expressions that occur in s from position i on, in text order
DatesFrom(s, i) ==
    IF i > Len(s) THEN <<>>
    ELSE IF DateSpanEnd(s, i) > 0
         THEN <<SubStr(s, i, DateSpanEnd(s, i))>>
                  \o DatesFrom(s, DateSpanEnd(s, i))
    ELSE DatesFrom(s, i + 1)

RECURSIVE Dedup(_)
\* ss without the later occurrences of its elements
Dedup(ss) ==
    IF ss = <<>> THEN <<>>
    ELSE AppendNew(Dedup(SubSeq(ss, 1, Len(ss) - 1)), ss[Len(ss)])

\* the months / dates metadata expected of a row
ExpectedMeta(df, row) ==
    LET cs == {c \in 1..Len(df.columns) :
                  PublicColumn(df.columns[c]) /\ value_str(row[c]) # <<>>}
        ms == Dedup(Flatten([k \in 1..Cardinality(cs) |->
                                MonthsIn(value_str(row[Nth(cs, k)]))]))
        ds == Dedup(Flatten([k \in 1..Cardinality(cs) |->
                                DatesFrom(value_str(row[Nth(cs, k)]), 1)]))
    IN  [month |-> IF ms = <<>> THEN <<>> ELSE ms[1],
         months |-> Join(ms, <<",", " ">>),
         date |-> IF ds = <<>> THEN <<>> ELSE ds[1],
         dates |-> Join(ds, <<",", " ">>)]

\* C15: for every row that yields a chunk, months is the comma-joined list,
\* without repetition and in order of occurrence, of every month name found
\* in the row's cell values, several in one cell included, and month is the
\* first of them; dates and date likewise for the date expressions.
C15_RowMonthsAndDates ==
    (table # <<>> /\ pc = "returned")
        => LET rs == {r \in 1..Len(table.rows) :
                         RowChunk(table, table.rows[r], "kalender.pdf") # <<>>}
           IN  /\ Len(chunks) = Cardinality(rs)
               /\ \A k \in 1..Len(chunks) :
                     [month |-> chunks[k].month, months |-> chunks[k].months,
                      date |-> chunks[k].date, dates |-> chunks[k].dates]
                        = ExpectedMeta(table, table.rows[Nth(rs, k)])

-----------------------------------------------------------------------------
(* ingest.py: main, for one PDF of the documents directory *)

\* the arguments of the generic RecursiveCharacterTextSplitter
generic_chunk_size    == 2000
generic_chunk_overlap == 400

is_calendar_document(name) == Contains(LowerStr(name), L_kalender)

is_peraturan_document(name, content_sample) ==
    \/ Contains(LowerStr(name), L_peraturan)
    \/ PasalCountFrom(content_sample, 1) >= 3

\* The PDF: npages pages that all hold the text `content`; pdf_table is the
\* table pdfplumber finds on every page, <<>> when the pages hold none.
T_plain      == <<<<H_Tgl, H_Acara>>, <<V_1Mei, V_Mei>>>>
T_noneheader == <<<<NoneValue, H_Acara>>, <<V_1Mei, V_Mei>>>>

MaxPages == 2

\* the keys of `stats`
stats_keys == {"peraturan", "kalender", "kalender_table"}

InitIngest ==
    /\ pc = "ingest"
    /\ question = <<>>
    /\ query_info = NoInfo
    /\ lookups = <<>>
    /\ results = <<>>
    /\ candidates = <<>>
    /\ scored_results = <<>>
    /\ filename \in Filenames
    /\ content \in Contents
    /\ strategy = "none"
    /\ impl = "none"
    /\ parts = <<>>
    /\ current_chunk = <<>>
    /\ current_article = {}
    /\ chunks = <<>>
    /\ table = <<>>
    /\ \E tbl \in IF is_calendar_document(filename)
                  THEN {<<>>, T_plain, T_noneheader} ELSE {<<>>},
          n \in 1..MaxPages :
          ingest = [pdf_table |-> tbl, npages |-> n, is_calendar |-> FALSE,
                    has_tables |-> FALSE, table_failed |-> FALSE,
                    is_peraturan |-> FALSE, page |-> 0,
                    all_documents |-> <<>>, path |-> "none",
                    doc_type |-> "none"]
    /\ sources = <<>>
    /\ reply = <<>>

\* what the steps of main leave alone
ingestFrame == <<question, query_info, lookups, results, candidates,
                 scored_results, filename, content, strategy, sources, reply>>

\* is_calendar = is_calendar_document(filename) and, for a calendar,
\* has_tables = pdf_has_tables(pdf_path, min_tables=1), which answers False
\* when pdfplumber cannot read the file
DetectCalendar ==
    /\ pc = "ingest"
    /\ \E readable \in BOOLEAN :
          LET cal == is_calendar_document(filename)
              has == cal /\ readable /\ ingest.pdf_table # <<>>
          IN  /\ ingest' = [ingest EXCEPT !.is_calendar = cal,
                                          !.has_tables = has]
              /\ pc' = IF has THEN "tables" ELSE "load"
    /\ UNCHANGED <<impl, parts, current_chunk, current_article, chunks>>
    /\ UNCHANGED table
    /\ UNCHANGED ingestFrame

\* the Document made of a chunk; page_index records the page the chunk was
\* cut from, a key that is not set is the empty string or the empty set
Document(text, meta_page, from_page, dtype, method, month, article) ==
    [page_content |-> text, source |-> filename, page |-> meta_page,
     page_index |-> from_page, doc_type |-> dtype,
     extraction_method |-> method, month |-> month,
     article_number |-> article]

\* tables = CalendarTableExtractor.extract_tables_from_pdf(pdf_path): one
\* DataFrame per page, held in `table`
ExtractTables ==
    /\ pc = "tables"
    /\ table' = [q \in 1..ingest.npages |->
                    DataFrameOf(ingest.pdf_table, q - 1, 0)]
    /\ pc' = "frames"
    /\ UNCHANGED <<impl, parts, current_chunk, current_article, chunks,
                   ingest>>
    /\ UNCHANGED ingestFrame

\* pdfplumber raises inside extract_tables_from_pdf: the exception is caught
\* by main, which falls through to the text extraction
ExtractTablesFails ==
    /\ pc = "tables"
    /\ ingest' = [ingest EXCEPT !.table_failed = TRUE]
    /\ pc' = "load"
    /\ UNCHANGED <<impl, parts, current_chunk, current_article, chunks,
                   table>>
    /\ UNCHANGED ingestFrame

\* the loop of extract_from_pdf over the tables and the loop of main over
\* the chunks it returns; main then goes on to the next file.  from_page
\* records the page a chunk was cut from.
TablesToChunks ==
    /\ pc = "frames"
    /\ \A q \in 1..Len(table) :
          table_to_chunks(table[q], filename).error = "none"
    /\ chunks' = Flatten([q \in 1..Len(table) |->
                     [k \in 1..Len(table_to_chunks(table[q], filename).chunks)
                        |-> [chunk |-> table_to_chunks(table[q],
                                                       filename).chunks[k],
                             from_page |-> q - 1]]])
    /\ ingest' = [ingest EXCEPT
                     !.all_documents =
                         [k \in 1..Len(chunks') |->
                             Document(chunks'[k].chunk.content,
                                      chunks'[k].chunk.page,
                                      chunks'[k].from_page,
                                      chunks'[k].chunk.doc_type, "table",
                                      chunks'[k].chunk.month, {})],
                     !.path = "table",
                     !.doc_type = "kalender"]
    /\ pc' = "ingested"
    /\ UNCHANGED <<impl, parts, current_chunk, current_article, table>>
    /\ UNCHANGED ingestFrame

\* table_to_chunks raises: the exception is caught by main, which falls
\* through to the text extraction
TablesToChunksFails ==
    /\ pc = "frames"
    /\ \E q \in 1..Len(table) :
          table_to_chunks(table[q], filename).error # "none"
    /\ ingest' = [ingest EXCEPT !.table_failed = TRUE]
    /\ pc' = "load"
    /\ UNCHANGED <<impl, parts, current_chunk, current_article, chunks,
                   table>>
    /\ UNCHANGED ingestFrame

\* docs = loader.load(); is_peraturan = is_peraturan_document(filename,
\* docs[0].page_content)
LoadText ==
    /\ pc = "load"
    /\ ingest' = [ingest EXCEPT
                     !.is_peraturan = is_peraturan_document(filename, content),
                     !.page = 0]
    /\ pc' = "page"
    /\ UNCHANGED <<impl, parts, current_chunk, current_article, chunks>>
    /\ UNCHANGED table
    /\ UNCHANGED ingestFrame

\* chunks = smart_split_by_articles(doc.page_content, base_metadata, 2000):
\* the call, carried out by the steps of the article split
PageSplitArticles ==
    /\ pc = "page"
    /\ ingest.is_peraturan
    /\ impl' = "smart_split_by_articles"
    /\ pc' = "start"
    /\ UNCHANGED <<parts, current_chunk, current_article, chunks, ingest>>
    /\ UNCHANGED table
    /\ UNCHANGED ingestFrame

\* the generic splitting of a page
PageSplitGeneric ==
    /\ pc = "page"
    /\ ~ingest.is_peraturan
    /\ \E split_texts \in split_text(content, generic_chunk_size,
                                     generic_chunk_overlap) :
          chunks' = [k \in 1..Len(split_texts) |->
                        [content |-> split_texts[k], article_number |-> {},
                         doc_type |-> "unset", flushed |-> "generic"]]
    /\ pc' = "returned"
    /\ UNCHANGED <<impl, parts, current_chunk, current_article, ingest>>
    /\ UNCHANGED table
    /\ UNCHANGED ingestFrame

\* the chunks of the page become Documents, and stats[doc_type] is
\* incremented, which raises KeyError for a doc_type that is no key of stats
StorePage ==
    /\ pc = "returned"
    /\ LET dtype == IF ingest.is_peraturan THEN "peraturan"
                    ELSE IF ingest.is_calendar THEN "kalender"
                    ELSE "generic"
           docs == [k \in 1..Len(chunks) |->
                       Document(chunks[k].content, ingest.page, ingest.page,
                                dtype, "text", <<>>,
                                chunks[k].article_number \ {0})]
       IN  /\ ingest' =
                 [ingest EXCEPT
                     !.all_documents = @ \o docs,
                     !.doc_type = dtype,
                     !.path = IF ingest.is_peraturan THEN "articles"
                              ELSE "recursive",
                     !.page = IF dtype \in stats_keys THEN @ + 1 ELSE @]
           /\ pc' = IF dtype \notin stats_keys THEN "crashed"
                    ELSE IF ingest.page + 1 < ingest.npages THEN "page"
                    ELSE "ingested"
    /\ UNCHANGED <<impl, parts, current_chunk, current_article, chunks>>
    /\ UNCHANGED table
    /\ UNCHANGED ingestFrame

NextIngest ==
    \/ DetectCalendar
    \/ ExtractTables
    \/ ExtractTablesFails
    \/ TablesToChunks
    \/ TablesToChunksFails
    \/ LoadText
    \/ PageSplitArticles
    \/ SplitStart
    \/ MarkerPart
    \/ TextPart
    \/ FinalFlush
    \/ PageSplitGeneric
    \/ StorePage

SpecIngest == InitIngest /\ [][NextIngest]_vars

-----------------------------------------------------------------------------
(* Claims about the ingestion run *)

\* main is through with the document: it went on to the next file, or an
\* exception left the loop
IngestOver == ingest # <<>> /\ pc \in {"ingested", "crashed"}

\* a '<Month> <Year>' boundary occurs in s
HasMonthBoundary(s) ==
    \E i \in 1..Len(s), k \in 1..Len(months_id) :
        /\ MatchAt(s, i, months_id[k])
        /\ SpaceEnd(s, i + Len(months_id[k])) > i + Len(months_id[k])
        /\ DigitEnd(s, SpaceEnd(s, i + Len(months_id[k])))
              >= SpaceEnd(s, i + Len(months_id[k])) + 4

\* C13: when the table extraction of a calendar document is unavailable or
\* fails, the failure is caught, the run goes on, and the text of the
\* document is segmented by the month-based split: its chunks carry
\* doc_type = kalender, and a chunk that holds a '<Month> <Year>' boundary
\* carries the month.
C13_FallbackToMonthSplit ==
    (/\ IngestOver
     /\ ingest.is_calendar
     /\ ingest.table_failed \/ ~ingest.has_tables)
        => /\ pc = "ingested"
           /\ \A k \in 1..Len(ingest.all_documents) :
                 /\ ingest.all_documents[k].doc_type = "kalender"
                 /\ HasMonthBoundary(ingest.all_documents[k].page_content)
                       => ingest.all_documents[k].month # <<>>

\* C18: the segmentation path main takes for a document and the doc_type it
\* stamps are those of the strategy that get_strategy returns for the
\* document's filename and text: the article split and peraturan for
\* Regulation, the calendar extraction and kalender for Calendar, the generic
\* split and generic for Generic.
C18_IngestAgreesWithSelector ==
    IngestOver =>
        LET chosen == get_strategy(filename, content)
        IN  /\ chosen = "PeraturanStrategy"
                  => ingest.path = "articles" /\ ingest.doc_type = "peraturan"
            /\ chosen = "KalenderStrategy"
                  => /\ ingest.path \in {"table", "recursive"}
                     /\ ingest.doc_type = "kalender"
            /\ chosen = "GenericStrategy"
                  => ingest.path = "recursive" /\ ingest.doc_type = "generic"

\* C16: the page metadata of every chunk is the zero-based index of the page
\* it was cut from, whichever extraction path produced it (so that the
\* citation '<source> (Page. page + 1)' names the chunk's 1-based page).
C16_PageIsZeroBasedIndex ==
    ingest # <<>> =>
        \A k \in 1..Len(ingest.all_documents) :
            ingest.all_documents[k].page = ingest.all_documents[k].page_index

-----------------------------------------------------------------------------
(* Claims about the completion call *)

\* C17: every failure of the chat completion, a transport failure as well as
\* an error that the model service reports in its response, reaches the
\* caller as one service error (status 500); no successful answer is
\* returned when the completion failed, and the call is made once.
C17_CompletionFailureIsServiceError ==
    pc = "replied" =>
        /\ reply.posts = 1
        /\ reply.completion # "completed" => reply.status = 500

====
